---------------------------- MODULE Spec2Model ----------------------------
(***************************************************************************)
(* Binary I/O core of the mmo repository: io::StreamSink over a            *)
(* std::ostream, the texture tool's save path (placeholder header,         *)
(* payload, HeaderSaver::finish) and its load path (pre-header, version    *)
(* dispatch, v1_0::loadHeader).                                            *)
(*                                                                         *)
(* A byte stream is a sequence of 0..255; positions are 0-based as in the  *)
(* code, so position p is element p + 1 of the sequence.                   *)
(***************************************************************************)
EXTENDS Integers, Sequences, FiniteSets

(***************************************************************************)
(* Bounds of the model.                                                    *)
(***************************************************************************)
\* Longest stream the Sink-level specification lets a call sequence build.
MaxStream == 3
\* Largest number of bytes the medium takes before it starts refusing.
MaxRoom == 2

Max(a, b) == IF a >= b THEN a ELSE b
Min(a, b) == IF a <= b THEN a ELSE b

Take(s, n) == SubSeq(s, 1, Min(n, Len(s)))

\* The byte blocks the Sink-level calls are handed: 0 is what a file system
\* puts in a gap, so the samples avoid it, and written and overwriting bytes
\* differ, so that each byte of the stream tells which call put it there.
WriteBlocks == {<<>>, <<1>>, <<1, 2>>}
OverwriteBlocks == {<<>>, <<3>>, <<3, 4>>}

(***************************************************************************)
(* std::ostream as StreamSink uses it (m_dest): the bytes the medium holds *)
(* (data), the put pointer (pp), the error state (bad: badbit or failbit)  *)
(* and the number of bytes the medium still accepts before it refuses a    *)
(* write (room, -1: it never refuses).  The first refusal sets badbit, and *)
(* the code never clears it, so the place of the first refusal is all the  *)
(* medium can choose: room is drawn once, in Init.                         *)
(***************************************************************************)

\* The stream's contents after w is stored at position p: a file stream lets
\* the put pointer stand past the end, and the gap reads as zeros.
PutAt(data, p, w) ==
    IF Len(w) = 0 THEN data
    ELSE [i \in 1..Max(Len(data), p + Len(w)) |->
            IF i > p /\ i <= p + Len(w) THEN w[i - p]
            ELSE IF i <= Len(data) THEN data[i]
            ELSE 0]

\* m_dest.write(src, size): nothing when the stream is in an error state;
\* else the bytes go to the put pointer, which advances.  A medium that
\* refuses takes only the bytes it has room for and the stream turns bad.
ostream_write(st, src) ==
    IF st.bad THEN st
    ELSE IF st.room < 0 \/ Len(src) <= st.room
    THEN [st EXCEPT !.data = PutAt(st.data, st.pp, src),
                    !.pp = st.pp + Len(src),
                    !.room = IF st.room < 0 THEN st.room ELSE st.room - Len(src)]
    ELSE [st EXCEPT !.data = PutAt(st.data, st.pp, Take(src, st.room)),
                    !.pp = st.pp + st.room,
                    !.room = 0,
                    !.bad = TRUE]

\* m_dest.tellp(): pos_type(-1) when fail(), else the put pointer.
ostream_tellp(st) == IF st.bad THEN -1 ELSE st.pp

\* m_dest.seekp(pos): nothing when fail(); a negative position fails the
\* seek (failbit); any other position is taken, also past the end.
ostream_seekp(st, pos) ==
    IF st.bad THEN st
    ELSE IF pos < 0 THEN [st EXCEPT !.bad = TRUE]
    ELSE [st EXCEPT !.pp = pos]

(***************************************************************************)
(* io::StreamSink.  Each operator gives the stream after the call (st) and *)
(* the value the call returns (ret).                                       *)
(***************************************************************************)

StreamSink_write(st, src) ==
    [st |-> ostream_write(st, src), ret |-> Len(src)]

\* An overwrite that leaves the put pointer behind the patched bytes.
StreamSink_overwrite_norestore(st, position, src) ==
    StreamSink_write(ostream_seekp(st, position), src)

\* An overwrite that forgets to seek: the bytes go to the append cursor.
StreamSink_overwrite_noseek(st, position, src) ==
    LET previous == ostream_tellp(st)
        result == StreamSink_write(st, src)
    IN [st |-> ostream_seekp(result.st, previous), ret |-> result.ret]

StreamSink_overwrite(st, position, src) ==
    LET previous == ostream_tellp(st)
        result == StreamSink_write(ostream_seekp(st, position), src)
    IN [st |-> ostream_seekp(result.st, previous), ret |-> result.ret]

\* static_cast<std::size_t>(m_dest.tellp()); -1 stands for the size_t image
\* of pos_type(-1), which the model only compares for equality.
StreamSink_position(st) == ostream_tellp(st)

\* m_dest.flush(): the model's data already is what the medium holds.
StreamSink_flush(st) == st


(***************************************************************************)
(* Fixed-width little-endian fields.                                       *)
(***************************************************************************)
RECURSIVE Pow256(_)
Pow256(k) == IF k = 0 THEN 1 ELSE 256 * Pow256(k - 1)

\* The n bytes of v, least significant first (-1 gives n bytes 0xFF, as the
\* all-ones value of an unsigned type does).
LE(v, n) == [i \in 1..n |-> (v \div Pow256(i - 1)) % 256]

RECURSIVE FromLE(_)
FromLE(b) == IF b = <<>> THEN 0 ELSE b[1] + 256 * FromLE(Tail(b))

\* The elements of a fixed-size array, n bytes each, one after the other.
RECURSIVE LERange(_, _)
LERange(xs, n) == IF xs = <<>> THEN <<>> ELSE LE(xs[1], n) \o LERange(Tail(xs), n)

(***************************************************************************)
(* The container format: tex::PreHeader and tex::v1_0::Header.  Their      *)
(* declarations are not among the sources; the layout is the one the       *)
(* format description gives and main.cpp and header_load.cpp use.          *)
(***************************************************************************)
\* Number of mip slots of a header (a constant of the format whose value
\* the sources do not show; the model keeps it small).
FixedMipCount == 2

\* The two bytes of the magic tag, read as one 16-bit field.
PreHeaderMagic == 21576
Version_1_0 == 256
NotCompressed == 0

PreHeaderSize == 2 + 4
HeaderSize == PreHeaderSize + 1 + 1 + 2 + 2 + 4 * FixedMipCount + 4 * FixedMipCount

Zeros == [i \in 1..FixedMipCount |-> 0]

\* v1_0::Header header{ version }: every other field zero.
NewHeader(version) ==
    [version |-> version, compression |-> 0, hasMips |-> FALSE,
     width |-> 0, height |-> 0, mipmapOffsets |-> Zeros, mipmapLengths |-> Zeros]

(***************************************************************************)
(* io::Reader over a Source: rd = [data, pos, ok].  A read of n bytes does *)
(* nothing once the chain has failed; with fewer than n bytes left it      *)
(* fails, stores nothing and leaves the cursor; else it decodes the n      *)
(* bytes at the cursor and advances by n.                                  *)
(***************************************************************************)
NewReader(data) == [data |-> data, pos |-> 0, ok |-> TRUE]

\* A read that ignores the failure of the chain before it.
Reader_read_unchecked(rd, n, old) ==
    IF rd.pos + n > Len(rd.data) THEN [rd |-> [rd EXCEPT !.ok = FALSE], val |-> old]
    ELSE [rd |-> [rd EXCEPT !.pos = rd.pos + n],
          val |-> FromLE(SubSeq(rd.data, rd.pos + 1, rd.pos + n))]

\* reader >> io::read<T>(dest), sizeof(T) = n; old is what dest held.
Reader_read(rd, n, old) ==
    IF ~rd.ok THEN [rd |-> rd, val |-> old]
    ELSE IF rd.pos + n > Len(rd.data) THEN [rd |-> [rd EXCEPT !.ok = FALSE], val |-> old]
    ELSE [rd |-> [rd EXCEPT !.pos = rd.pos + n],
          val |-> FromLE(SubSeq(rd.data, rd.pos + 1, rd.pos + n))]

\* reader >> io::read_range(array): the array's elements in sequence.
RECURSIVE Reader_read_range(_, _, _, _)
Reader_read_range(rd, n, old, i) ==
    IF i > Len(old) THEN [rd |-> rd, val |-> old]
    ELSE LET r == Reader_read(rd, n, old[i])
         IN Reader_read_range(r.rd, n, [old EXCEPT ![i] = r.val], i + 1)


\* A skip made of a seek: it moves the cursor whether or not the bytes are
\* there.
Reader_skip_seek(rd, n) ==
    IF ~rd.ok THEN rd ELSE [rd EXCEPT !.pos = rd.pos + n]

\* reader >> io::skip<T>(), sizeof(T) = n: the bytes are consumed and no
\* value is produced.
Reader_skip(rd, n) ==
    IF ~rd.ok THEN rd
    ELSE IF rd.pos + n > Len(rd.data) THEN [rd EXCEPT !.ok = FALSE]
    ELSE [rd EXCEPT !.pos = rd.pos + n]

\* source.seek(pos): the cursor stays within the size of the Source.
StreamSource_seek(rd, pos) ==
    IF pos <= Len(rd.data) THEN [rd EXCEPT !.pos = pos] ELSE rd

(***************************************************************************)
(* tex::loadPreHeader and tex::v1_0::loadHeader.                           *)
(***************************************************************************)
NoPreHeader == [magic |-> 0, version |-> 0]

\* loadPreHeader(preHeader, reader): magic and version as one chain; the
\* load fails when the chain failed or the magic is not the format's.
loadPreHeader(pre, rd) ==
    LET m == Reader_read(rd, 2, pre.magic)
        v == Reader_read(m.rd, 4, pre.version)
    IN [pre |-> [magic |-> m.val, version |-> v.val],
        rd |-> v.rd,
        result |-> v.rd.ok /\ m.val = PreHeaderMagic]

\* The chain with width and height in the wrong order.
loadHeader_ops_swapped ==
    <<"compression", "hasMips", "height", "width", "mipmapOffsets", "mipmapLengths">>

\* The chain without its last range.
loadHeader_ops_short ==
    <<"compression", "hasMips", "width", "height", "mipmapOffsets">>

\* The chain that takes the flag before the compression.
loadHeader_ops_flagFirst ==
    <<"hasMips", "compression", "width", "height", "mipmapOffsets", "mipmapLengths">>

\* The fields of the chained expression of loadHeader, in its order.
loadHeader_ops ==
    <<"compression", "hasMips", "width", "height", "mipmapOffsets", "mipmapLengths">>

\* reader >> io::read<T>(header.field) or io::read_range(header.field): one
\* operation of the chain, with the width the code gives the field.
loadHeader_field(f, hdr, rd) ==
    CASE f = "compression" ->
            LET r == Reader_read(rd, 1, hdr.compression)
            IN [hdr |-> [hdr EXCEPT !.compression = r.val], rd |-> r.rd]
      [] f = "hasMips" ->
            LET r == Reader_read(rd, 1, IF hdr.hasMips THEN 1 ELSE 0)
            IN [hdr |-> [hdr EXCEPT !.hasMips = (r.val # 0)], rd |-> r.rd]
      [] f = "width" ->
            LET r == Reader_read(rd, 2, hdr.width)
            IN [hdr |-> [hdr EXCEPT !.width = r.val], rd |-> r.rd]
      [] f = "height" ->
            LET r == Reader_read(rd, 2, hdr.height)
            IN [hdr |-> [hdr EXCEPT !.height = r.val], rd |-> r.rd]
      [] f = "mipmapOffsets" ->
            LET r == Reader_read_range(rd, 4, hdr.mipmapOffsets, 1)
            IN [hdr |-> [hdr EXCEPT !.mipmapOffsets = r.val], rd |-> r.rd]
      [] f = "mipmapLengths" ->
            LET r == Reader_read_range(rd, 4, hdr.mipmapLengths, 1)
            IN [hdr |-> [hdr EXCEPT !.mipmapLengths = r.val], rd |-> r.rd]

\* The k-th operation of loadHeader's chain.
loadHeader_step(k, hdr, rd) == loadHeader_field(loadHeader_ops[k], hdr, rd)

\* The switch on preHeader.version that takes every version for 1.0.
main_switch_any(version) == "v1_0"

\* switch (preHeader.version) of the info path.
main_switch(version) == IF version = Version_1_0 THEN "v1_0" ELSE "unsupported"

(***************************************************************************)
(* tex::v1_0::HeaderSaver (its source is not among the files): the         *)
(* constructor writes pre-header and header, the offset and length slots   *)
(* as the header holds them then, and keeps the position of the slots;     *)
(* finish() overwrites the slots with what the header holds by then.       *)
(***************************************************************************)
FixedFields(hdr) ==
    LE(PreHeaderMagic, 2) \o LE(hdr.version, 4)
        \o LE(hdr.compression, 1) \o LE(IF hdr.hasMips THEN 1 ELSE 0, 1)
        \o LE(hdr.width, 2) \o LE(hdr.height, 2)

MipFields(hdr) == LERange(hdr.mipmapOffsets, 4) \o LERange(hdr.mipmapLengths, 4)

HeaderSaver_ctor(st, hdr) ==
    LET fixed == StreamSink_write(st, FixedFields(hdr)).st
    IN [st |-> StreamSink_write(fixed, MipFields(hdr)).st,
        saver |-> [m_mipPosition |-> StreamSink_position(fixed)]]

HeaderSaver_finish(st, saver, hdr) ==
    StreamSink_overwrite(st, saver.m_mipPosition, MipFields(hdr)).st

(***************************************************************************)
(* main() of the texture tool, conversion path.                            *)
(***************************************************************************)

RECURSIVE Pow2(_)
Pow2(i) == IF i = 0 THEN 1 ELSE 2 * Pow2(i - 1)

\* Lines 303 to 333: the header of the image, hasMips from the loop over
\* the sixteen powers of two.
main_initHeader(width, height) ==
    [NewHeader(Version_1_0) EXCEPT
        !.width = width,
        !.height = height,
        !.compression = NotCompressed,
        !.hasMips = (\E i \in 0..15 : width = Pow2(i))
                        /\ (\E i \in 0..15 : height = Pow2(i))]

\* The payload step that takes the position only after writing the pixels.
main_writePixelData_late(st, hdr, pixelData) ==
    LET after == StreamSink_write(st, pixelData).st
    IN [st |-> after,
        hdr |-> [hdr EXCEPT !.mipmapOffsets[1] = StreamSink_position(after),
                            !.mipmapLengths[1] = Len(pixelData)]]

\* The payload step that gives every slot the position and the size.
main_writePixelData_everySlot(st, hdr, pixelData) ==
    [st |-> StreamSink_write(st, pixelData).st,
     hdr |-> [hdr EXCEPT
                !.mipmapOffsets = [i \in 1..FixedMipCount |-> StreamSink_position(st)],
                !.mipmapLengths = [i \in 1..FixedMipCount |-> Len(pixelData)]]]

\* Lines 339 to 342: slot 0 takes the position of the sink and the size of
\* the pixel data (the casts to uint32 keep every value of the model, which
\* stays far below 2^32), then the pixels are written.
main_writePixelData(st, hdr, pixelData) ==
    [st |-> StreamSink_write(st, pixelData).st,
     hdr |-> [hdr EXCEPT !.mipmapOffsets[1] = StreamSink_position(st),
                         !.mipmapLengths[1] = Len(pixelData)]]

(***************************************************************************)
(* BmpImageParser::Parse.  The 32-bit fields are held as the unsigned      *)
(* value of their four bytes; the files of the model keep bit 31 of every  *)
(* field and bit 15 of its low word clear, so that the casts between       *)
(* uint32 and int32 and std::abs keep the value.                           *)
(***************************************************************************)
LOWORD(l) == l % 65536
HIWORD(l) == (l \div 65536) % 65536

\* HIWORD(l) + ((uint32)LOWORD(l) << 16), lines 90, 91 and 123.
Parse_swapWords(l) == HIWORD(l) + LOWORD(l) * 65536

\* The locals and out-parameters of Parse; bmpMagic has no initial value in
\* the code and is read only after the read that sets it succeeded.
Parse_locals ==
    [bmpMagic |-> 0, pixelOffset |-> 0, bmWidth |-> 0, bmHeight |-> 0,
     width |-> 0, height |-> 0, bpp |-> 0, compression |-> 0]

\* The operations on the reader up to the seek, lines 63 to 120, in order.
Parse_ops ==
    << [kind |-> "read", n |-> 2, dest |-> "bmpMagic"],
       [kind |-> "skip", n |-> 2, dest |-> ""],
       [kind |-> "skip", n |-> 4, dest |-> ""],
       [kind |-> "read", n |-> 4, dest |-> "pixelOffset"],
       [kind |-> "skip", n |-> 4, dest |-> ""],
       [kind |-> "read", n |-> 4, dest |-> "bmWidth"],
       [kind |-> "read", n |-> 4, dest |-> "bmHeight"],
       [kind |-> "skip", n |-> 4, dest |-> ""],
       [kind |-> "read", n |-> 2, dest |-> "bpp"],
       [kind |-> "read", n |-> 4, dest |-> "compression"] >>

\* Lines 90 to 96: the words of the size are swapped, width and height take
\* the low 16 bits.
Parse_size(loc) ==
    LET w == Parse_swapWords(loc.bmWidth)
        h == Parse_swapWords(loc.bmHeight)
    IN [loc EXCEPT !.bmWidth = w, !.bmHeight = h,
                   !.width = w % 65536, !.height = h % 65536]

\* The k-th operation with the test the code makes after it: go is FALSE
\* where Parse returns false.
Parse_step(k, loc, rd) ==
    LET o == Parse_ops[k]
        r == IF o.kind = "skip" THEN [rd |-> Reader_skip(rd, o.n), val |-> 0]
             ELSE Reader_read(rd, o.n, loc[o.dest])
        l == IF o.kind = "skip" THEN loc ELSE [loc EXCEPT ![o.dest] = r.val]
    IN CASE o.dest = "bmpMagic" ->
              [rd |-> r.rd, loc |-> l, go |-> r.rd.ok /\ l.bmpMagic = 19778]
         [] o.dest = "pixelOffset" ->
              [rd |-> r.rd, loc |-> l, go |-> r.rd.ok /\ l.pixelOffset >= 54]
         [] o.dest = "bmHeight" ->
              IF ~r.rd.ok THEN [rd |-> r.rd, loc |-> l, go |-> FALSE]
              ELSE LET z == Parse_size(l)
                   IN [rd |-> r.rd, loc |-> z, go |-> z.width # 0 /\ z.height # 0]
         [] o.dest = "bpp" ->
              [rd |-> r.rd, loc |-> l, go |-> r.rd.ok /\ l.bpp \in {24, 32}]
         [] o.dest = "compression" ->
              [rd |-> r.rd, loc |-> l, go |-> r.rd.ok]
         [] OTHER -> [rd |-> r.rd, loc |-> l, go |-> TRUE]

\* Lines 133 to 144: count pixels of three bytes, blue first, stored red
\* first; the loop leaves with false at the first pixel that is not there.
RECURSIVE Parse_readPixels(_, _, _)
Parse_readPixels(rd, count, pixels) ==
    IF count = 0 THEN [rd |-> rd, pixels |-> pixels, go |-> TRUE]
    ELSE LET b == Reader_read(rd, 1, 0)
             g == Reader_read(b.rd, 1, 0)
             r == Reader_read(g.rd, 1, 0)
         IN IF ~r.rd.ok THEN [rd |-> r.rd, pixels |-> pixels, go |-> FALSE]
            ELSE Parse_readPixels(r.rd, count - 1,
                                  pixels \o <<r.val, g.val, b.val>>)

\* Lines 122 to 148: the seek to the pixel data and the pixels of a bitmap
\* that is not compressed.
Parse_pixelData(loc, rd) ==
    LET at == StreamSource_seek(rd, Parse_swapWords(loc.pixelOffset))
    IN IF loc.compression = 0
       THEN Parse_readPixels(at, loc.width * loc.height, <<>>)
       ELSE [rd |-> at, pixels |-> <<>>, go |-> TRUE]

(***************************************************************************)
(* mmo::SendSink over the send buffer of a connection.  conn = [sendBuffer, *)
(* flushes, takes]: the buffer, how often the connection's flush ran, and  *)
(* whether its flush takes the buffer's bytes away when it hands them to   *)
(* the transport or leaves them there.                                     *)
(***************************************************************************)
\* connection.flush(): the buffer is handed to the transport.
AbstractConnection_flush(conn) ==
    [conn EXCEPT !.flushes = conn.flushes + 1,
                 !.sendBuffer = IF conn.takes THEN <<>> ELSE conn.sendBuffer]

\* io::StringSink::write, which SendSink inherits: the bytes are appended
\* to the string the sink was given.
StringSink_write(conn, src) ==
    [conn EXCEPT !.sendBuffer = conn.sendBuffer \o src]

\* io::StringSink::overwrite, which SendSink inherits: bytes already in the
\* string are replaced in place.
StringSink_overwrite(conn, position, src) ==
    [conn EXCEPT !.sendBuffer =
        [i \in 1..Len(conn.sendBuffer) |->
            IF i > position /\ i <= position + Len(src) THEN src[i - position]
            ELSE conn.sendBuffer[i]]]

\* A flush that SendSink does not override: the connection never hears.
SendSink_flush_inherited(conn) == conn

\* SendSink::flush(): m_connection.flush().
SendSink_flush(conn) == AbstractConnection_flush(conn)

(***************************************************************************)
(* Console: the registry of console commands, a std::map from the name to  *)
(* the command, ordered by StrCaseIComp.  The map is held as the set of    *)
(* its elements [key, cmd], no two keys equivalent under the ordering.     *)
(***************************************************************************)
\* The names the model registers, the same name in two spellings among them.
ConsoleNames == {"ver", "VER", "run"}

\* StrCaseIComp orders names without regard to case: two names are
\* equivalent keys when they fold to the same string.
StrCaseIComp_fold(name) == IF name = "VER" THEN "ver" ELSE name

\* s_consoleCommands.find(command): the elements with an equivalent key,
\* none (end()) or one.
map_find(m, command) ==
    {e \in m : StrCaseIComp_fold(e.key) = StrCaseIComp_fold(command)}

\* A registration that puts the new command in the place of the old one.
Console_RegisterCommand_replace(m, command, handler, category, help) ==
    (m \ map_find(m, command))
        \cup {[key |-> command,
               cmd |-> [category |-> category, help |-> help, handler |-> handler]]}

\* Console::RegisterCommand(command, handler, category, help)
Console_RegisterCommand(m, command, handler, category, help) ==
    IF map_find(m, command) # {} THEN m
    ELSE m \cup {[key |-> command,
                  cmd |-> [category |-> category, help |-> help,
                           handler |-> handler]]}

\* Console::UnregisterCommand(command)
Console_UnregisterCommand(m, command) ==
    IF map_find(m, command) # {} THEN m \ map_find(m, command) ELSE m

\* A command line is held as the sequence of its pieces, each a word or a
\* single space; Join gives the string they spell.
RECURSIVE Join(_)
Join(pieces) ==
    IF pieces = <<>> THEN "" ELSE Head(pieces) \o Join(Tail(pieces))

\* commandLine.find(' '): the place of the first space, 0 for npos.
string_find(commandLine) ==
    IF \E i \in 1..Len(commandLine) : commandLine[i] = " "
    THEN CHOOSE i \in 1..Len(commandLine) :
            /\ commandLine[i] = " "
            /\ \A j \in 1..(i - 1) : commandLine[j] # " "
    ELSE 0

\* commandLine.rfind(' '): the place of the last space, 0 for npos.
string_rfind(commandLine) ==
    IF \E i \in 1..Len(commandLine) : commandLine[i] = " "
    THEN CHOOSE i \in 1..Len(commandLine) :
            /\ commandLine[i] = " "
            /\ \A j \in (i + 1)..Len(commandLine) : commandLine[j] # " "
    ELSE 0

\* What ExecuteCommand does once the line is split at the place `space`:
\* the handlers it invokes with their parameters, and the errors it logs.
Console_dispatch(m, commandLine, space) ==
    LET command == IF space = 0 THEN commandLine
                   ELSE SubSeq(commandLine, 1, space - 1)
        arguments == IF space = 0 THEN <<>>
                     ELSE SubSeq(commandLine, space + 1, Len(commandLine))
        it == map_find(m, Join(command))
    IN  IF command = <<>> THEN [invoked |-> <<>>, errors |-> <<>>]
        ELSE IF it = {} THEN [invoked |-> <<>>, errors |-> <<Join(command)>>]
        ELSE LET second == (CHOOSE e \in it : TRUE).cmd
             IN  IF second.handler # 0
                 THEN [invoked |-> <<[handler |-> second.handler,
                                      command |-> Join(command),
                                      arguments |-> Join(arguments)]>>,
                       errors |-> <<>>]
                 ELSE [invoked |-> <<>>, errors |-> <<>>]

\* An ExecuteCommand that takes the last word of the line as the arguments.
Console_ExecuteCommand_lastSpace(m, commandLine) ==
    Console_dispatch(m, commandLine, string_rfind(commandLine))

\* Console::ExecuteCommand(commandLine)
Console_ExecuteCommand(m, commandLine) ==
    Console_dispatch(m, commandLine, string_find(commandLine))

\* A KeyDown that knows the key 0xC0 alone.
Console_KeyDown_oneKey(visible, height, key) ==
    IF key = 192
    THEN [visible |-> ~visible,
          height |-> IF ~visible /\ height <= 0 THEN 200 ELSE height,
          result |-> FALSE]
    ELSE [visible |-> visible, height |-> height, result |-> TRUE]

\* Console::KeyDown(key) on s_consoleVisible and s_consoleWindowHeight:
\* the two after the call and the value returned.  0xC0 = 192, 0xDC = 220.
Console_KeyDown(visible, height, key) ==
    IF key = 192 \/ key = 220
    THEN [visible |-> ~visible,
          height |-> IF ~visible /\ height <= 0 THEN 200 ELSE height,
          result |-> FALSE]
    ELSE [visible |-> visible, height |-> height, result |-> TRUE]

(***************************************************************************)
(* The console log: a std::list of messages, the newest at the front, fed  *)
(* by the callback connected to the log signal.  A message is held as the  *)
(* number of the log event that brought it.                                *)
(***************************************************************************)
\* The most entries the callback leaves in the log.
LogCapacity == 50

\* s_consoleLog.push_front(entry.message)
LogCallback_push(log, message) == <<message>> \o log

\* A callback that makes room at the front of the list.
LogCallback_trim_front(log) ==
    IF Len(log) > LogCapacity THEN Tail(log) ELSE log

\* if (s_consoleLog.size() > 50) s_consoleLog.pop_back();
LogCallback_trim(log) ==
    IF Len(log) > LogCapacity THEN SubSeq(log, 1, Len(log) - 1) ELSE log

(***************************************************************************)
(* Console::Paint walks the log from rbegin() to rend().  A reverse        *)
(* iterator holds its base, the node behind the one it reads: 0 stands for *)
(* end(), any other value for the node of that message.                    *)
(***************************************************************************)
\* Where the node of the message is in the list, 0 when it is not there.
list_position(log, node) ==
    IF \E i \in 1..Len(log) : log[i] = node
    THEN CHOOSE i \in 1..Len(log) : log[i] = node
    ELSE 0

\* The base is end() or a node still in the list; anything else dangles.
rit_valid(log, base) == base = 0 \/ list_position(log, base) > 0

\* it == s_consoleLog.rend(): the base is begin().
rit_isRend(log, base) ==
    IF log = <<>> THEN base = 0 ELSE base = log[1]

\* *it: the message of the node before the base.
rit_deref(log, base) ==
    IF base = 0 THEN log[Len(log)] ELSE log[list_position(log, base) - 1]

VARIABLES
    m_dest,     \* the std::ostream behind the StreamSink
    call,       \* the last Sink call: what was asked and what it returned
    frontier,   \* highest position ever written through the Sink
    shadow,     \* the stream the write calls alone produce
    patched,    \* <<position, byte>>: the bytes overwrite calls put, latest per position
    mode,       \* the run of the tool: "info", "convert", or "idle" (no run)
    pc,         \* where main() stands
    exitCode,   \* what main() returned, -1 while it runs
    given,      \* info: what the source file was made from
    rd,         \* the io::Reader over the source file and its StreamSource
    preHeader,  \* info: tex::PreHeader
    lheader,    \* info: the v1_0::Header being loaded
    op,         \* the next operation of the chain of loadHeader or Parse, 0 before
    parse,      \* convert: the locals and out-parameters of Parse
    image,      \* convert: what the image parser gave (width, height, pixels)
    canOpen,    \* convert: whether the target file can be opened
    header,     \* convert: the v1_0::Header being saved
    saver,      \* convert: the HeaderSaver
    segment,    \* convert: where the payload lies in the stream, as measured on it
    m_connection, \* send: the connection a SendSink was made for
    sendCall,   \* send: the last call on the SendSink
    flushCalls, \* send: how many times SendSink::flush was called
    s_consoleCommands, \* console: the registered commands
    consoleCalls, \* console: the calls made on the registry, in order
    executed,   \* console: the last ExecuteCommand call and what it did
    s_consoleVisible,      \* console: whether the window is shown
    s_consoleWindowHeight, \* console: the height of the window
    keyCalls,   \* console: the keys given to KeyDown and what it returned
    s_consoleLog,       \* console: the log lines, newest first
    s_consoleTextDirty, \* console: whether the text must be rebuilt
    s_consoleLogMutex,  \* console: the thread holding the mutex, or "free"
    s_consoleLogConn,   \* console: whether the callback is connected
    logPc,      \* console: where each logging thread is in the callback
    logged,     \* console: how many log events were delivered
    paintPc,    \* console: where the main thread is in Paint or Destroy
    paintIt,    \* console: the base of Paint's reverse iterator
    startPoint, \* console: the y of the next line Paint draws
    s_consoleTextGeom,  \* console: the lines in the text geometry
    fontHeight  \* console: what s_consoleFont->GetHeight() returns

sinkVars == <<m_dest, call, frontier, shadow, patched>>
sinkGhosts == <<call, frontier, shadow, patched>>
infoVars == <<given, rd, preHeader, lheader, op>>
convertVars == <<parse, image, canOpen, header, saver, segment>>
toolVars == <<mode, pc, exitCode, given, rd, preHeader, lheader, op,
              parse, image, canOpen, header, saver, segment>>
sendVars == <<m_connection, sendCall, flushCalls>>
consoleVars == <<s_consoleCommands, consoleCalls>>
execVars == <<executed>>
keyVars == <<s_consoleVisible, s_consoleWindowHeight, keyCalls>>
logVars == <<s_consoleLog, s_consoleTextDirty, s_consoleLogMutex, s_consoleLogConn, logPc, logged>>
paintVars == <<paintPc, paintIt, startPoint, s_consoleTextGeom, fontHeight>>
uiVars == <<logVars, paintVars>>
otherVars == <<sendVars, consoleVars, execVars, keyVars, uiVars>>
vars == <<sinkVars, toolVars, otherVars>>

NoCall == [op |-> "none", position |-> 0, size |-> 0, ret |-> 0]

NewStream(room) == [data |-> <<>>, pp |-> 0, bad |-> FALSE, room |-> room]

NoHeader == NewHeader(0)
NoGiven == [hdr |-> NoHeader, variant |-> "none", n |-> 0]
NoImage == [width |-> 0, height |-> 0, pixels |-> <<>>]
NoSaver == [m_mipPosition |-> 0]
NoSegment == [at |-> 0, len |-> 0]

NoSinkCalls ==
    /\ call = NoCall
    /\ frontier = 0
    /\ shadow = <<>>
    /\ patched = {}

NoInfo ==
    /\ given = NoGiven
    /\ rd = NewReader(<<>>)
    /\ preHeader = NoPreHeader
    /\ lheader = NoHeader
    /\ op = 0

NoConvert ==
    /\ parse = Parse_locals
    /\ image = NoImage
    /\ canOpen = FALSE
    /\ header = NoHeader
    /\ saver = NoSaver
    /\ segment = NoSegment

NoConnection == [sendBuffer |-> <<>>, flushes |-> 0, takes |-> FALSE]

NoSend ==
    /\ m_connection = NoConnection
    /\ sendCall = "none"
    /\ flushCalls = 0

NoExecuted ==
    executed = [done |-> FALSE, line |-> <<>>, invoked |-> <<>>, errors |-> <<>>]

\* The console is hidden and 210 high, before and after Initialize.
NoKeys ==
    /\ s_consoleVisible = FALSE
    /\ s_consoleWindowHeight = 210
    /\ keyCalls = <<>>

\* The threads that log while the console is up.
LogThreads == {"net", "worker"}

\* The log after Initialize: empty, the text to be built, the callback
\* connected, no thread in it.
NoLog ==
    /\ s_consoleLog = <<>>
    /\ s_consoleTextDirty = TRUE
    /\ s_consoleLogMutex = "free"
    /\ s_consoleLogConn = TRUE
    /\ logPc = [t \in LogThreads |-> [at |-> "idle", message |-> 0]]
    /\ logged = 0

\* The main thread outside Paint, the text geometry empty.  The height of
\* a line is what Font::GetHeight() returns for the 12 point font; the Font
\* class is not among the sources, and 14 stands for it.
NoPaint ==
    /\ paintPc = "idle"
    /\ paintIt = 0
    /\ startPoint = 0
    /\ s_consoleTextGeom = <<>>
    /\ fontHeight = 14

NoConsole ==
    /\ s_consoleCommands = {}
    /\ consoleCalls = <<>>
    /\ NoExecuted
    /\ NoKeys
    /\ NoLog
    /\ NoPaint

SinkInit ==
    /\ NoSend
    /\ NoConsole
    /\ m_dest \in {NewStream(r) : r \in -1..MaxRoom}
    /\ NoSinkCalls
    /\ mode = "idle" /\ pc = "idle" /\ exitCode = -1
    /\ NoInfo
    /\ NoConvert

\* Number of bytes of src the stream st stored in the call that led to after.
Stored(st, after, src) ==
    IF st.bad THEN 0
    ELSE IF after.bad THEN Max(st.room, 0)
    ELSE Len(src)

\* sink.write(src, size)
SinkWrite(src) ==
    LET r == StreamSink_write(m_dest, src)
        n == Stored(m_dest, r.st, src)
    IN /\ m_dest.bad \/ m_dest.pp + Len(src) <= MaxStream
       /\ m_dest' = r.st
       /\ call' = [op |-> "write", position |-> 0, size |-> Len(src), ret |-> r.ret]
       /\ frontier' = IF n > 0 THEN Max(frontier, m_dest.pp + n) ELSE frontier
       /\ shadow' = shadow \o Take(src, n)
       /\ UNCHANGED patched
       /\ UNCHANGED toolVars
       /\ UNCHANGED otherVars

\* sink.overwrite(position, src, size)
SinkOverwrite(position, src) ==
    LET r == StreamSink_overwrite(m_dest, position, src)
        n == Stored(m_dest, r.st, src)
        region == {position + i - 1 : i \in 1..n}
    IN /\ position + Len(src) <= MaxStream
       /\ m_dest' = r.st
       /\ call' = [op |-> "overwrite", position |-> position,
                   size |-> Len(src), ret |-> r.ret]
       /\ frontier' = IF n > 0 THEN Max(frontier, position + n) ELSE frontier
       /\ patched' = {e \in patched : e[1] \notin region}
                        \cup {<<position + i - 1, src[i]>> : i \in 1..n}
       /\ UNCHANGED shadow
       /\ UNCHANGED toolVars
       /\ UNCHANGED otherVars

\* sink.position()
SinkPosition ==
    /\ call' = [op |-> "position", position |-> 0, size |-> 0,
                ret |-> StreamSink_position(m_dest)]
    /\ UNCHANGED <<m_dest, frontier, shadow, patched>>
    /\ UNCHANGED toolVars
    /\ UNCHANGED otherVars

\* sink.flush()
SinkFlush ==
    /\ m_dest' = StreamSink_flush(m_dest)
    /\ call' = [op |-> "flush", position |-> 0, size |-> 0, ret |-> 0]
    /\ UNCHANGED <<frontier, shadow, patched>>
    /\ UNCHANGED toolVars
    /\ UNCHANGED otherVars

SinkNext ==
    \/ \E src \in WriteBlocks : SinkWrite(src)
    \/ \E position \in 0..MaxStream, src \in OverwriteBlocks : SinkOverwrite(position, src)
    \/ SinkPosition
    \/ SinkFlush

SpecSink == SinkInit /\ [][SinkNext]_vars

(***************************************************************************)
(* The runs of the texture tool.                                           *)
(***************************************************************************)
\* Longest pixel block the image parser hands over in the model.
MaxPixels == 6

\* Header values the info runs are given files of: every field takes values
\* that tell it from its neighbours and use all of its bytes.
HeaderSamples ==
    {[version |-> Version_1_0, compression |-> c, hasMips |-> m,
      width |-> w, height |-> h, mipmapOffsets |-> o, mipmapLengths |-> l] :
        c \in {0, 3}, m \in BOOLEAN, w \in {1, 258}, h \in {2, 65535},
        o \in {Zeros, [i \in 1..FixedMipCount |-> 16909060 + i]},
        l \in {Zeros, [i \in 1..FixedMipCount |-> 70000 + i]}}

\* The file the save sequence of main() makes of a header and a payload on a
\* medium that refuses nothing: the saver is constructed while the slots
\* still hold their placeholders, the payload is written, finish() patches.
SaveFile(hdr, payload) ==
    LET c == HeaderSaver_ctor(NewStream(-1),
                 [hdr EXCEPT !.mipmapOffsets = Zeros, !.mipmapLengths = Zeros])
        w == StreamSink_write(c.st, payload).st
    IN HeaderSaver_finish(w, c.saver, hdr).data

\* What an info run is given: a saved file as it is, one of its prefixes
\* shorter than the header, or the file with another magic or version.
InfoInputs ==
    {[hdr |-> h, variant |-> "intact", n |-> HeaderSize + 1] : h \in HeaderSamples}
    \cup {[hdr |-> h, variant |-> "prefix", n |-> k] :
            h \in HeaderSamples, k \in 0..(HeaderSize - 1)}
    \cup {[hdr |-> h, variant |-> v, n |-> HeaderSize + 1] :
            h \in HeaderSamples, v \in {"magic", "version"}}

SourceFile(g) ==
    LET full == SaveFile(g.hdr, <<9>>)
    IN CASE g.variant = "prefix" -> Take(full, g.n)
         [] g.variant = "magic" -> [full EXCEPT ![1] = 0]
         [] g.variant = "version" -> [full EXCEPT ![3] = 1]
         [] OTHER -> full

\* A bitmap file as image editors write it: the 14 bytes of the file header
\* (type, size, two reserved words, offset of the pixels), the 40 bytes of
\* the info header, then the pixels, three bytes each.
BmpFile(b) ==
    LET count == IF b.compression = 0 THEN b.width * b.height * 3 ELSE 0
    IN LE(b.type, 2) \o LE(54 + count, 4) \o LE(0, 2) \o LE(0, 2)
         \o LE(b.offBits, 4) \o LE(40, 4) \o LE(b.width, 4) \o LE(b.height, 4)
         \o LE(1, 2) \o LE(b.bitCount, 2) \o LE(b.compression, 4)
         \o LE(count, 4) \o LE(2835, 4) \o LE(2835, 4) \o LE(0, 4) \o LE(0, 4)
         \o [i \in 1..count |-> 10 + i]

\* A bitmap of 24 bits per pixel, not compressed.
PlainBmp(w, h) ==
    [type |-> 19778, offBits |-> 54, width |-> w, height |-> h,
     bitCount |-> 24, compression |-> 0, n |-> 54 + w * h * 3]

\* The bitmaps a conversion run is given: small plain ones whole and cut at
\* every length, and whole ones with another type, offset (none, or one
\* that points into the headers), size, depth or compression.
BmpInputs ==
    LET small == {PlainBmp(d[1], d[2]) :
                    d \in {e \in {<<1, 1>>, <<2, 1>>, <<1, 2>>} :
                             e[1] * e[2] * 3 <= MaxPixels}}
        one == PlainBmp(1, 1)
    IN {[b EXCEPT !.n = k] : b \in small, k \in 0..(54 + MaxPixels)}
       \cup {[one EXCEPT !.type = 19779], [one EXCEPT !.offBits = 0],
              [one EXCEPT !.offBits = 20],
              [one EXCEPT !.width = 0], [one EXCEPT !.height = 0],
              [one EXCEPT !.bitCount = 8], [one EXCEPT !.bitCount = 32],
              [one EXCEPT !.compression = 1],
              [PlainBmp(256, 256) EXCEPT !.compression = 1, !.n = 54],
              [PlainBmp(3, 32767) EXCEPT !.compression = 1, !.n = 54]}

\* The medium refuses nothing, or after a few bytes of the header, or
\* around the end of the header.
ToolRooms ==
    (-1..MaxRoom) \cup {HeaderSize + k : k \in (0 - 1)..MaxRoom}

ToolInit ==
    /\ NoSinkCalls
    /\ NoSend
    /\ NoConsole
    /\ exitCode = -1
    /\ \/ /\ mode = "info" /\ pc = "loadPreHeader"
          /\ given \in InfoInputs
          /\ rd = NewReader(SourceFile(given))
          /\ preHeader = NoPreHeader /\ lheader = NoHeader /\ op = 0
          /\ m_dest = NewStream(-1)
          /\ NoConvert
       \/ /\ mode = "convert" /\ pc = "parse"
          /\ \E b \in BmpInputs : rd = NewReader(Take(BmpFile(b), b.n))
          /\ op = 1
          /\ given = NoGiven /\ preHeader = NoPreHeader /\ lheader = NoHeader
          /\ m_dest = NewStream(-1)
          /\ NoConvert

Exit(code) == pc' = "exit" /\ exitCode' = code

\* Lines 217 to 223: the pre-header, or "Failed to read htex pre header".
InfoLoadPreHeader ==
    /\ pc = "loadPreHeader"
    /\ LET r == loadPreHeader(preHeader, rd)
       IN /\ rd' = r.rd
          /\ preHeader' = r.pre
          /\ IF r.result THEN pc' = "switch" /\ UNCHANGED exitCode ELSE Exit(1)
    /\ UNCHANGED <<given, lheader, op, mode, m_dest>>
    /\ UNCHANGED convertVars
    /\ UNCHANGED sinkGhosts
    /\ UNCHANGED otherVars

\* Lines 226 to 231 and 249 to 252: the switch on the version.
InfoSwitch ==
    /\ pc = "switch"
    /\ IF main_switch(preHeader.version) = "v1_0"
       THEN /\ lheader' = NewHeader(preHeader.version)
            /\ op' = 1
            /\ pc' = "loadHeader"
            /\ UNCHANGED exitCode
       ELSE Exit(1) /\ UNCHANGED <<lheader, op>>
    /\ UNCHANGED <<given, rd, preHeader, mode, m_dest>>
    /\ UNCHANGED convertVars
    /\ UNCHANGED sinkGhosts
    /\ UNCHANGED otherVars

\* One operation of the chain of loadHeader.
InfoLoadHeaderStep ==
    /\ pc = "loadHeader"
    /\ op <= Len(loadHeader_ops)
    /\ LET r == loadHeader_step(op, lheader, rd)
       IN lheader' = r.hdr /\ rd' = r.rd
    /\ op' = op + 1
    /\ UNCHANGED <<given, preHeader, mode, pc, exitCode, m_dest>>
    /\ UNCHANGED convertVars
    /\ UNCHANGED sinkGhosts
    /\ UNCHANGED otherVars

\* loadHeader returns the state of the chain; lines 232 to 236 of main().
InfoLoadHeaderReturn ==
    /\ pc = "loadHeader"
    /\ op > Len(loadHeader_ops)
    /\ IF rd.ok THEN pc' = "describe" /\ UNCHANGED exitCode ELSE Exit(1)
    /\ UNCHANGED <<given, rd, preHeader, lheader, op, mode, m_dest>>
    /\ UNCHANGED convertVars
    /\ UNCHANGED sinkGhosts
    /\ UNCHANGED otherVars

\* Lines 238 to 246, then return 0.
InfoDescribe ==
    /\ pc = "describe"
    /\ Exit(0)
    /\ UNCHANGED <<mode, m_dest>>
    /\ UNCHANGED infoVars
    /\ UNCHANGED convertVars
    /\ UNCHANGED sinkGhosts
    /\ UNCHANGED otherVars

\* One operation of Parse on the reader and the test after it; lines 281
\* to 285 of main(): "Failed to parse source image file".
ConvertParseStep ==
    /\ pc = "parse"
    /\ op <= Len(Parse_ops)
    /\ LET r == Parse_step(op, parse, rd)
       IN /\ rd' = r.rd
          /\ parse' = r.loc
          /\ IF r.go THEN op' = op + 1 /\ UNCHANGED <<pc, exitCode>>
             ELSE Exit(1) /\ UNCHANGED op
    /\ UNCHANGED <<given, preHeader, lheader, mode, m_dest>>
    /\ UNCHANGED <<image, canOpen, header, saver, segment>>
    /\ UNCHANGED sinkGhosts
    /\ UNCHANGED otherVars

\* The seek and the pixels; Parse returns, main() goes on or gives up.
ConvertParsePixels ==
    /\ pc = "parse"
    /\ op > Len(Parse_ops)
    /\ LET r == Parse_pixelData(parse, rd)
       IN /\ rd' = r.rd
          /\ IF r.go
             THEN /\ image' = [width |-> parse.width, height |-> parse.height,
                               pixels |-> r.pixels]
                  /\ pc' = "open" /\ UNCHANGED exitCode
             ELSE Exit(1) /\ UNCHANGED image
    /\ UNCHANGED <<given, preHeader, lheader, op, mode, m_dest>>
    /\ UNCHANGED <<parse, canOpen, header, saver, segment>>
    /\ UNCHANGED sinkGhosts
    /\ UNCHANGED otherVars

\* Lines 287 to 293: the target file is opened, or "Could not open"; what
\* the medium will take shows in the writes that follow.
ConvertOpen ==
    /\ pc = "open"
    /\ \/ /\ canOpen' = TRUE
          /\ \E r \in ToolRooms : m_dest' = NewStream(r)
          /\ pc' = "initHeader" /\ UNCHANGED exitCode
       \/ /\ canOpen' = FALSE
          /\ Exit(1) /\ UNCHANGED m_dest
    /\ UNCHANGED mode
    /\ UNCHANGED infoVars
    /\ UNCHANGED <<parse, image, header, saver, segment>>
    /\ UNCHANGED sinkGhosts
    /\ UNCHANGED otherVars

\* Lines 303 to 333.
ConvertInitHeader ==
    /\ pc = "initHeader"
    /\ header' = main_initHeader(image.width, image.height)
    /\ pc' = "saver"
    /\ UNCHANGED <<mode, exitCode, m_dest, parse, image, canOpen, saver, segment>>
    /\ UNCHANGED infoVars
    /\ UNCHANGED sinkGhosts
    /\ UNCHANGED otherVars

\* Line 336: v1_0::HeaderSaver saver{ sink, header }.
ConvertSaver ==
    /\ pc = "saver"
    /\ LET r == HeaderSaver_ctor(m_dest, header)
       IN m_dest' = r.st /\ saver' = r.saver
    /\ pc' = "payload"
    /\ UNCHANGED <<mode, exitCode, parse, image, canOpen, header, segment>>
    /\ UNCHANGED infoVars
    /\ UNCHANGED sinkGhosts
    /\ UNCHANGED otherVars

\* Lines 338 to 342; segment is where the stream itself shows the payload.
ConvertPayload ==
    /\ pc = "payload"
    /\ LET r == main_writePixelData(m_dest, header, image.pixels)
       IN /\ m_dest' = r.st
          /\ header' = r.hdr
          /\ segment' = [at |-> Len(m_dest.data),
                         len |-> Len(r.st.data) - Len(m_dest.data)]
    /\ pc' = "finish"
    /\ UNCHANGED <<mode, exitCode, parse, image, canOpen, saver>>
    /\ UNCHANGED infoVars
    /\ UNCHANGED sinkGhosts
    /\ UNCHANGED otherVars

\* Line 345: saver.finish(); then the stream closes and main() returns 0.
ConvertFinish ==
    /\ pc = "finish"
    /\ m_dest' = HeaderSaver_finish(m_dest, saver, header)
    /\ Exit(0)
    /\ UNCHANGED <<mode, parse, image, canOpen, header, saver, segment>>
    /\ UNCHANGED infoVars
    /\ UNCHANGED sinkGhosts
    /\ UNCHANGED otherVars

Next ==
    \/ InfoLoadPreHeader
    \/ InfoSwitch
    \/ InfoLoadHeaderStep
    \/ InfoLoadHeaderReturn
    \/ InfoDescribe
    \/ ConvertParseStep
    \/ ConvertParsePixels
    \/ ConvertOpen
    \/ ConvertInitHeader
    \/ ConvertSaver
    \/ ConvertPayload
    \/ ConvertFinish

Spec == ToolInit /\ [][Next]_vars

(***************************************************************************)
(* Calls on a SendSink.                                                    *)
(***************************************************************************)
\* Longest send buffer the calls build.
MaxSend == 3
\* Most calls of SendSink::flush in a behaviour.
MaxFlush == 3

SendBlocks == {<<>>, <<1>>, <<1, 2>>}
SendPatches == {<<3>>, <<3, 4>>}

\* SendSink sink{ connection }: the connection may hold bytes already.
SendInit ==
    /\ m_connection \in {[sendBuffer |-> b, flushes |-> 0, takes |-> t] :
                            b \in {<<>>, <<7>>}, t \in BOOLEAN}
    /\ sendCall = "none"
    /\ flushCalls = 0
    /\ NoConsole
    /\ m_dest = NewStream(-1)
    /\ NoSinkCalls
    /\ mode = "idle" /\ pc = "idle" /\ exitCode = -1
    /\ NoInfo
    /\ NoConvert

\* sink.write(src, size)
SendWrite(src) ==
    /\ Len(m_connection.sendBuffer) + Len(src) <= MaxSend
    /\ m_connection' = StringSink_write(m_connection, src)
    /\ sendCall' = "write"
    /\ UNCHANGED flushCalls
    /\ UNCHANGED <<sinkVars, toolVars, consoleVars, execVars, keyVars, uiVars>>

\* sink.overwrite(position, src, size) on bytes that are in the buffer
SendOverwrite(position, src) ==
    /\ position + Len(src) <= Len(m_connection.sendBuffer)
    /\ m_connection' = StringSink_overwrite(m_connection, position, src)
    /\ sendCall' = "overwrite"
    /\ UNCHANGED flushCalls
    /\ UNCHANGED <<sinkVars, toolVars, consoleVars, execVars, keyVars, uiVars>>

\* sink.flush()
SendFlush ==
    /\ flushCalls < MaxFlush
    /\ m_connection' = SendSink_flush(m_connection)
    /\ sendCall' = "flush"
    /\ flushCalls' = flushCalls + 1
    /\ UNCHANGED <<sinkVars, toolVars, consoleVars, execVars, keyVars, uiVars>>

SendNext ==
    \/ \E src \in SendBlocks : SendWrite(src)
    \/ \E position \in 0..MaxSend, src \in SendPatches : SendOverwrite(position, src)
    \/ SendFlush

SpecSend == SendInit /\ [][SendNext]_vars

(***************************************************************************)
(* Calls on the registry of console commands.                              *)
(***************************************************************************)
\* Most calls on the registry in a behaviour.
MaxCalls == 4

\* The commands the calls register: handler, category and help text differ.
ConsoleCommands ==
    {[category |-> "Default", help |-> "first", handler |-> 1],
     [category |-> "Debug", help |-> "second", handler |-> 2]}

\* The static map before any call.
ConsoleInit ==
    /\ NoConsole
    /\ NoSend
    /\ m_dest = NewStream(-1)
    /\ NoSinkCalls
    /\ mode = "idle" /\ pc = "idle" /\ exitCode = -1
    /\ NoInfo
    /\ NoConvert

ConsoleRegister(command, cmd) ==
    /\ Len(consoleCalls) < MaxCalls
    /\ s_consoleCommands' =
          Console_RegisterCommand(s_consoleCommands, command,
                                  cmd.handler, cmd.category, cmd.help)
    /\ consoleCalls' =
          Append(consoleCalls, [op |-> "register", command |-> command, cmd |-> cmd])
    /\ UNCHANGED <<sinkVars, toolVars, sendVars, execVars, keyVars, uiVars>>

ConsoleUnregister(command) ==
    /\ Len(consoleCalls) < MaxCalls
    /\ s_consoleCommands' = Console_UnregisterCommand(s_consoleCommands, command)
    /\ consoleCalls' =
          Append(consoleCalls, [op |-> "unregister", command |-> command,
                                cmd |-> [category |-> "", help |-> "", handler |-> 0]])
    /\ UNCHANGED <<sinkVars, toolVars, sendVars, execVars, keyVars, uiVars>>

ConsoleNext ==
    \/ \E command \in ConsoleNames, cmd \in ConsoleCommands :
          ConsoleRegister(command, cmd)
    \/ \E command \in ConsoleNames : ConsoleUnregister(command)

SpecConsole == ConsoleInit /\ [][ConsoleNext]_vars

(***************************************************************************)
(* Console::ExecuteCommand on a registry some registrations have built.    *)
(***************************************************************************)
\* Most pieces in a command line, and most registrations before the lines.
MaxLine == 3
MaxRegistered == 2

\* The pieces of the lines: a registered name, another word, a space.
LineChunks == {"VER", "x", " "}

CommandLines == UNION {[1..n -> LineChunks] : n \in 0..MaxLine}

\* The commands registered before the lines: one has no handler.
ExecCommands ==
    ConsoleCommands \cup {[category |-> "Default", help |-> "none", handler |-> 0]}

RECURSIVE RegisterAll(_, _)
RegisterAll(m, regs) ==
    IF regs = <<>> THEN m
    ELSE RegisterAll(Console_RegisterCommand(m, Head(regs).command,
                         Head(regs).cmd.handler, Head(regs).cmd.category,
                         Head(regs).cmd.help),
                     Tail(regs))

\* The registries that up to MaxRegistered RegisterCommand calls leave.
ExecRegistries ==
    {RegisterAll({}, regs) :
        regs \in UNION {[1..n -> [command : ConsoleNames, cmd : ExecCommands]] :
                           n \in 0..MaxRegistered}}

ExecInit ==
    /\ s_consoleCommands \in ExecRegistries
    /\ consoleCalls = <<>>
    /\ NoExecuted
    /\ NoKeys
    /\ NoLog
    /\ NoPaint
    /\ NoSend
    /\ m_dest = NewStream(-1)
    /\ NoSinkCalls
    /\ mode = "idle" /\ pc = "idle" /\ exitCode = -1
    /\ NoInfo
    /\ NoConvert

\* ExecuteCommand(commandLine); the handlers are not among the sources and
\* are taken to leave the registry alone.
ConsoleExecute(commandLine) ==
    /\ executed' = [done |-> TRUE, line |-> commandLine,
                    invoked |-> Console_ExecuteCommand(s_consoleCommands, commandLine).invoked,
                    errors |-> Console_ExecuteCommand(s_consoleCommands, commandLine).errors]
    /\ UNCHANGED <<sinkVars, toolVars, sendVars, consoleVars, keyVars, uiVars>>

ExecNext == \E commandLine \in CommandLines : ConsoleExecute(commandLine)

SpecExecute == ExecInit /\ [][ExecNext]_vars

(***************************************************************************)
(* Console::KeyDown, called by the event loop for every key pressed.       *)
(***************************************************************************)
\* Most keys pressed in a behaviour.
MaxKeys == 4

\* The two console keys, the keys next to 0xC0, and the return key.
KeyCodes == {192, 220, 191, 193, 13}

KeyInit ==
    /\ NoConsole
    /\ NoSend
    /\ m_dest = NewStream(-1)
    /\ NoSinkCalls
    /\ mode = "idle" /\ pc = "idle" /\ exitCode = -1
    /\ NoInfo
    /\ NoConvert

ConsoleKeyDown(key) ==
    /\ Len(keyCalls) < MaxKeys
    /\ s_consoleVisible' =
          Console_KeyDown(s_consoleVisible, s_consoleWindowHeight, key).visible
    /\ s_consoleWindowHeight' =
          Console_KeyDown(s_consoleVisible, s_consoleWindowHeight, key).height
    /\ keyCalls' =
          Append(keyCalls,
                 [key |-> key,
                  result |-> Console_KeyDown(s_consoleVisible,
                                             s_consoleWindowHeight, key).result])
    /\ UNCHANGED <<sinkVars, toolVars, sendVars, consoleVars, execVars, uiVars>>

KeyNext == \E key \in KeyCodes : ConsoleKeyDown(key)

SpecKeys == KeyInit /\ [][KeyNext]_vars

(***************************************************************************)
(* The log callback, run by the logging threads one statement at a time.   *)
(***************************************************************************)
\* Most log events delivered in a behaviour of SpecLog.
MaxLogged == 52

LogInit ==
    /\ NoConsole
    /\ NoSend
    /\ m_dest = NewStream(-1)
    /\ NoSinkCalls
    /\ mode = "idle" /\ pc = "idle" /\ exitCode = -1
    /\ NoInfo
    /\ NoConvert

\* std::scoped_lock lock{ s_consoleLogMutex }: the thread enters the
\* callback with the next log event once the mutex is free.  No thread
\* takes a step once the program has crashed.
LogLock(t, most) ==
    /\ paintPc # "crashed"
    /\ logged < most
    /\ s_consoleLogConn
    /\ logPc[t].at = "idle"
    /\ s_consoleLogMutex = "free"
    /\ s_consoleLogMutex' = t
    /\ logged' = logged + 1
    /\ logPc' = [logPc EXCEPT ![t] = [at |-> "locked", message |-> logged + 1]]
    /\ UNCHANGED <<s_consoleLog, s_consoleTextDirty, s_consoleLogConn>>
    /\ UNCHANGED <<sinkVars, toolVars, sendVars, consoleVars, execVars, keyVars, paintVars>>

LogPush(t) ==
    /\ paintPc # "crashed"
    /\ logPc[t].at = "locked"
    /\ s_consoleLog' = LogCallback_push(s_consoleLog, logPc[t].message)
    /\ logPc' = [logPc EXCEPT ![t].at = "pushed"]
    /\ UNCHANGED <<s_consoleTextDirty, s_consoleLogMutex, s_consoleLogConn, logged>>
    /\ UNCHANGED <<sinkVars, toolVars, sendVars, consoleVars, execVars, keyVars, paintVars>>

LogTrim(t) ==
    /\ paintPc # "crashed"
    /\ logPc[t].at = "pushed"
    /\ s_consoleLog' = LogCallback_trim(s_consoleLog)
    /\ logPc' = [logPc EXCEPT ![t].at = "trimmed"]
    /\ UNCHANGED <<s_consoleTextDirty, s_consoleLogMutex, s_consoleLogConn, logged>>
    /\ UNCHANGED <<sinkVars, toolVars, sendVars, consoleVars, execVars, keyVars, paintVars>>

\* s_consoleTextDirty = true, and the lock is released on return.
LogDirty(t) ==
    /\ paintPc # "crashed"
    /\ logPc[t].at = "trimmed"
    /\ s_consoleTextDirty' = TRUE
    /\ s_consoleLogMutex' = "free"
    /\ logPc' = [logPc EXCEPT ![t] = [at |-> "idle", message |-> 0]]
    /\ UNCHANGED <<s_consoleLog, s_consoleLogConn, logged>>
    /\ UNCHANGED <<sinkVars, toolVars, sendVars, consoleVars, execVars, keyVars, paintVars>>

LogNext ==
    \E t \in LogThreads :
        \/ LogLock(t, MaxLogged)
        \/ LogPush(t)
        \/ LogTrim(t)
        \/ LogDirty(t)

SpecLog == LogInit /\ [][LogNext]_vars

(***************************************************************************)
(* Console::Paint and Console::Destroy on the main thread, the log         *)
(* callback on the logging threads.                                        *)
(***************************************************************************)
\* Most log events delivered while the main thread paints.
MaxRaced == 2

\* The logs Paint starts from: an empty one, and a full one.
PaintLogs == {0, LogCapacity}

PaintInit ==
    /\ s_consoleCommands = {}
    /\ consoleCalls = <<>>
    /\ NoExecuted
    /\ \/ NoKeys
       \/ /\ s_consoleVisible = Console_KeyDown(FALSE, 210, 192).visible
          /\ s_consoleWindowHeight = Console_KeyDown(FALSE, 210, 192).height
          /\ keyCalls = <<[key |-> 192, result |-> Console_KeyDown(FALSE, 210, 192).result]>>
    /\ \E n \in PaintLogs :
          /\ logged = n
          /\ s_consoleLog = [i \in 1..n |-> n - i + 1]
    /\ s_consoleTextDirty = TRUE
    /\ s_consoleLogMutex = "free"
    /\ s_consoleLogConn = TRUE
    /\ logPc = [t \in LogThreads |-> [at |-> "idle", message |-> 0]]
    /\ NoPaint
    /\ NoSend
    /\ m_dest = NewStream(-1)
    /\ NoSinkCalls
    /\ mode = "idle" /\ pc = "idle" /\ exitCode = -1
    /\ NoInfo
    /\ NoConvert

\* Paint up to the loop: nothing when the console is hidden or the text is
\* clean; else the geometry is reset and the iterator set to rbegin().
PaintBegin ==
    /\ paintPc = "idle"
    /\ s_consoleVisible
    /\ IF s_consoleTextDirty
       THEN /\ s_consoleTextGeom' = <<>>
            /\ startPoint' = 0
            /\ paintIt' = 0
            /\ paintPc' = "lines"
       ELSE UNCHANGED <<s_consoleTextGeom, startPoint, paintIt, paintPc>>
    /\ UNCHANGED fontHeight
    /\ UNCHANGED <<sinkVars, toolVars, sendVars, consoleVars, execVars, keyVars, logVars>>

\* One turn of the loop: the test against rend(), the line drawn, the y
\* moved down, the break below the window, the iterator moved on.
PaintLine ==
    /\ paintPc = "lines"
    /\ rit_valid(s_consoleLog, paintIt)
    /\ IF rit_isRend(s_consoleLog, paintIt)
       THEN /\ paintPc' = "clean"
            /\ UNCHANGED <<s_consoleTextGeom, startPoint, paintIt>>
       ELSE /\ s_consoleTextGeom' =
                  Append(s_consoleTextGeom, rit_deref(s_consoleLog, paintIt))
            /\ startPoint' = startPoint + fontHeight
            /\ paintIt' = rit_deref(s_consoleLog, paintIt)
            /\ paintPc' = IF startPoint + fontHeight > s_consoleWindowHeight
                          THEN "clean" ELSE "lines"
    /\ UNCHANGED fontHeight
    /\ UNCHANGED <<sinkVars, toolVars, sendVars, consoleVars, execVars, keyVars, logVars>>

\* One turn of the loop on an iterator whose node pop_back has freed: the
\* program may stop there, or draw whatever the freed node holds.
PaintFreed ==
    /\ paintPc = "lines"
    /\ ~rit_valid(s_consoleLog, paintIt)
    /\ \/ /\ paintPc' = "crashed"
          /\ UNCHANGED <<s_consoleTextGeom, startPoint, paintIt>>
       \/ /\ s_consoleTextGeom' = Append(s_consoleTextGeom, -1)
          /\ startPoint' = startPoint + fontHeight
          /\ paintIt' = 0
          /\ paintPc' = "clean"
    /\ UNCHANGED fontHeight
    /\ UNCHANGED <<sinkVars, toolVars, sendVars, consoleVars, execVars, keyVars, logVars>>

\* s_consoleTextDirty = false
PaintClean ==
    /\ paintPc = "clean"
    /\ s_consoleTextDirty' = FALSE
    /\ paintPc' = "idle"
    /\ UNCHANGED <<s_consoleLog, s_consoleLogMutex, s_consoleLogConn, logPc, logged>>
    /\ UNCHANGED <<paintIt, startPoint, s_consoleTextGeom, fontHeight>>
    /\ UNCHANGED <<sinkVars, toolVars, sendVars, consoleVars, execVars, keyVars>>

\* Destroy up to s_consoleTextGeom.reset(): the callback is disconnected,
\* a callback that is running goes on.
DestroyDisconnect ==
    /\ paintPc = "idle"
    /\ s_consoleLogConn' = FALSE
    /\ s_consoleTextGeom' = <<>>
    /\ paintPc' = "disconnected"
    /\ UNCHANGED <<s_consoleLog, s_consoleTextDirty, s_consoleLogMutex, logPc, logged>>
    /\ UNCHANGED <<paintIt, startPoint, fontHeight>>
    /\ UNCHANGED <<sinkVars, toolVars, sendVars, consoleVars, execVars, keyVars>>

\* s_consoleLog.clear()
DestroyClear ==
    /\ paintPc = "disconnected"
    /\ s_consoleLog' = <<>>
    /\ paintPc' = "destroyed"
    /\ UNCHANGED <<s_consoleTextDirty, s_consoleLogMutex, s_consoleLogConn, logPc, logged>>
    /\ UNCHANGED <<paintIt, startPoint, s_consoleTextGeom, fontHeight>>
    /\ UNCHANGED <<sinkVars, toolVars, sendVars, consoleVars, execVars, keyVars>>

PaintNext ==
    \/ \E t \in LogThreads :
          \/ LogLock(t, IF logged < LogCapacity THEN MaxRaced
                        ELSE LogCapacity + MaxRaced)
          \/ LogPush(t)
          \/ LogTrim(t)
          \/ LogDirty(t)
    \/ PaintBegin
    \/ PaintLine
    \/ PaintFreed
    \/ PaintClean
    \/ DestroyDisconnect
    \/ DestroyClear

SpecPaint == PaintInit /\ [][PaintNext]_vars

(***************************************************************************)
(* Claims about the Sink, under SpecSink.                                  *)
(***************************************************************************)

\* The stream is in the state the write and overwrite calls asked for: the
\* medium refused nothing.
StreamGood == ~m_dest.bad

PatchedPositions == {e[1] : e \in patched}

C3_OverwriteIsolation ==
    StreamGood =>
        /\ \A e \in patched :
              e[1] < Len(m_dest.data) /\ m_dest.data[e[1] + 1] = e[2]
        /\ \A p \in (0..(Len(shadow) - 1)) \ PatchedPositions :
              p < Len(m_dest.data) /\ m_dest.data[p + 1] = shadow[p + 1]
        /\ \A p \in 0..(Len(m_dest.data) - 1) :
              p < Len(shadow) \/ p \in PatchedPositions

\* C4: an overwrite whose end lies past the highest position ever written
\* fails (it does not report its bytes as written) and leaves the contents
\* and the length of the stream unchanged; stated for the calls that
\* bring bytes to a stream whose medium refuses nothing.
C4_OverwritePastFrontierFails ==
    [][(/\ call'.op = "overwrite"
        /\ call'.size > 0
        /\ call'.position + call'.size > frontier
        /\ ~m_dest'.bad) =>
            /\ m_dest'.data = m_dest.data
            /\ call'.ret < call'.size]_sinkVars

\* C5: a write the medium refuses does not report the full byte count as
\* written.
C5_RefusedWriteReportsFailure ==
    [][(call'.op = "write" /\ ~m_dest.bad /\ m_dest'.bad) =>
        call'.ret < call'.size]_sinkVars

\* C13: a write that succeeds (the stream is good before and after it)
\* moves position() forward by its byte count, and returns the number of
\* bytes by which the stream grew.
C13_WriteReturnsAppended ==
    [][(call'.op = "write" /\ ~m_dest.bad /\ ~m_dest'.bad) =>
        /\ StreamSink_position(m_dest') = StreamSink_position(m_dest) + call'.size
        /\ call'.ret = Len(m_dest'.data) - Len(m_dest.data)]_sinkVars

(***************************************************************************)
(* Claims about the SendSink, under SpecSend.                              *)
(***************************************************************************)

\* What a step that is a call on the SendSink keeps.
SendCallKept ==
    /\ (sendCall' = "write") =>
          /\ m_connection'.flushes = m_connection.flushes
          /\ Len(m_connection'.sendBuffer) >= Len(m_connection.sendBuffer)
          /\ SubSeq(m_connection'.sendBuffer, 1, Len(m_connection.sendBuffer))
                = m_connection.sendBuffer
    /\ (sendCall' = "overwrite") =>
          /\ m_connection'.flushes = m_connection.flushes
          /\ Len(m_connection'.sendBuffer) = Len(m_connection.sendBuffer)
    /\ (sendCall' = "flush") =>
          m_connection'.flushes = m_connection.flushes + 1
    /\ (sendCall = "flush" /\ sendCall' = "flush") =>
          m_connection'.sendBuffer = m_connection.sendBuffer

\* C16: a write through a SendSink only appends to the send buffer of the
\* connection; the flush of the connection runs in SendSink::flush and
\* nowhere else, once per call; and a flush that follows a flush with no
\* write or overwrite between them leaves the send buffer as it was.
C16_FlushOnlyOnFlush ==
    /\ [](m_connection.flushes = flushCalls)
    /\ [][SendCallKept]_sendVars

\* Two flush calls in a row after bytes were written, on a connection whose
\* flush leaves the bytes in the buffer.
C16_Witness ==
    /\ sendCall = "flush" /\ flushCalls = 2 /\ m_connection.flushes = 2
    /\ Len(m_connection.sendBuffer) = 2

(***************************************************************************)
(* Claims about the save path and the load path of the tool, under Spec.   *)
(***************************************************************************)

\* A conversion run that got through the save sequence on a medium that
\* refused nothing: the file holds what the run wrote.
Saved == mode = "convert" /\ pc = "exit" /\ exitCode = 0 /\ StreamGood

\* The 32-bit value the file holds at position p.
StoredU32(p) == FromLE(SubSeq(m_dest.data, p + 1, p + 4))
\* Where slot i (from 0) of the offsets and of the lengths lies in a file.
OffsetSlot(i) == PreHeaderSize + 6 + 4 * i
LengthSlot(i) == PreHeaderSize + 6 + 4 * FixedMipCount + 4 * i

\* C1: after placeholder header, payload and finish(), the offset and the
\* length the file holds for the segment are the position at which the
\* segment starts in the stream and its byte count, as measured on the
\* stream; in the tool that is the position right after the fixed-size
\* header and the size of the pixel data.
C1_PatchedSlotsMatchSegment ==
    Saved =>
        /\ StoredU32(OffsetSlot(0)) = segment.at
        /\ StoredU32(LengthSlot(0)) = segment.len
        /\ segment.at = HeaderSize
        /\ segment.len = Len(image.pixels)
        /\ SubSeq(m_dest.data, segment.at + 1, segment.at + segment.len) = image.pixels

\* A saved file with a payload of two pixels.
C1_Witness ==
    Saved /\ Len(image.pixels) = 6 /\ StoredU32(LengthSlot(0)) = 6

\* The file a saver makes that has the whole payload at hand, computes the
\* offsets and lengths first and writes header and payload in one pass.
ReferenceFile(img) ==
    LET h == [main_initHeader(img.width, img.height) EXCEPT
                 !.mipmapOffsets[1] = HeaderSize,
                 !.mipmapLengths[1] = Len(img.pixels)]
    IN FixedFields(h) \o MipFields(h) \o img.pixels

\* C10: the file of the deferred-patch protocol is byte for byte the file of
\* the reference saver.
C10_SameAsBufferedSaver == Saved => m_dest.data = ReferenceFile(image)

\* A saved file of an image with mip maps whose pixels follow the header.
C10_Witness ==
    /\ Saved /\ header.hasMips /\ Len(image.pixels) = 3
    /\ Len(m_dest.data) = HeaderSize + 3

\* The chain of the reader has failed while loadHeader or Parse runs.
ChainFailed == mode \in {"info", "convert"} /\ ~rd.ok

\* C6: the success flag of a Reader starts true; once an operation of a
\* chain has failed, the flag stays false, the later operations leave their
\* destinations and the cursor of the Source where the failed one left
\* them, and the chain as a whole fails: the run ends with status 1 and
\* neither describes a header nor opens a target.
C6_ChainShortCircuit ==
    /\ rd.ok
    /\ [][ChainFailed =>
            /\ ~rd'.ok
            /\ rd'.pos = rd.pos
            /\ lheader' = lheader /\ preHeader' = preHeader
            /\ parse' = parse /\ image' = image
            /\ pc' \in {"loadHeader", "parse", "exit"}
            /\ pc' = "exit" => exitCode' = 1]_vars

\* Parse on a bitmap cut inside the planes field: the skip of that field
\* failed with the two bytes a read of the depth asks for still there, the
\* read after it left depth and cursor alone, and Parse returned false.
C6_Witness ==
    /\ mode = "convert" /\ pc = "exit" /\ exitCode = 1
    /\ ~rd.ok /\ rd.pos = 24 /\ Len(rd.data) >= 26
    /\ op = 9 /\ parse.bpp = 0 /\ parse.width # 0

\* C7: of a valid container cut to a length below the header size, the load
\* fails, and the cursor of the Source never passes the cut.
C7_TruncatedLoadFails ==
    (mode = "info" /\ given.variant = "prefix") =>
        /\ rd.pos <= given.n
        /\ pc # "describe"
        /\ pc = "exit" => exitCode = 1

\* loadHeader ran on a file cut inside the header, and the run failed.
C7_Witness ==
    /\ mode = "info" /\ given.variant = "prefix" /\ given.n = HeaderSize - 1
    /\ pc = "exit" /\ exitCode = 1
    /\ op > Len(loadHeader_ops)

\* What the first bytes of the source file say.
FileHasPreHeader == Len(rd.data) >= PreHeaderSize
FileMagic == FromLE(SubSeq(rd.data, 1, 2))
FileVersion == FromLE(SubSeq(rd.data, 3, 6))
FileIsV1_0 ==
    FileHasPreHeader /\ FileMagic = PreHeaderMagic /\ FileVersion = Version_1_0

\* C8: loadHeader runs only after the pre-header was decoded with the magic
\* of the format and a supported version; on any other input the load ends
\* in failure with no byte after the pre-header consumed and no field of
\* the header decoded.
C8_MagicVersionGate ==
    mode = "info" =>
        /\ op > 0 => FileIsV1_0 /\ preHeader.magic = PreHeaderMagic
                        /\ preHeader.version = Version_1_0
        /\ ~FileIsV1_0 =>
              /\ op = 0 /\ lheader = NoHeader /\ rd.pos <= PreHeaderSize
              /\ pc \in {"loadPreHeader", "switch", "exit"}
              /\ pc = "exit" => exitCode = 1

\* A file of another version was turned down after its pre-header.
C8_Witness ==
    /\ mode = "info" /\ given.variant = "version"
    /\ pc = "exit" /\ exitCode = 1 /\ rd.pos = PreHeaderSize
    /\ preHeader.magic = PreHeaderMagic /\ preHeader.version # Version_1_0

\* C9: a header saved through the header saver, finish() included, and
\* loaded with the pre-header and the v1.0 header loaders comes back equal
\* in every field.
C9_HeaderRoundTrip ==
    (mode = "info" /\ given.variant = "intact" /\ pc \in {"describe", "exit"}) =>
        /\ lheader = given.hdr
        /\ pc = "exit" => exitCode = 0

\* A header with values in every field came back.
C9_Witness ==
    /\ mode = "info" /\ given.variant = "intact" /\ pc = "exit"
    /\ lheader = given.hdr
    /\ lheader.hasMips /\ lheader.compression # 0 /\ lheader.width = 258
    /\ lheader.mipmapOffsets # Zeros /\ lheader.mipmapLengths # Zeros

\* The bytes of a file at position p as an unsigned little-endian value.
U8At(d, p) == d[p + 1]
U16At(d, p) == d[p + 1] + 256 * d[p + 2]
U32At(d, p) == d[p + 1] + 256 * d[p + 2] + 65536 * d[p + 3] + 16777216 * d[p + 4]

\* Where the cursor stands before the k-th operation of loadHeader, counted
\* from the cursor at which loadHeader starts.
FieldStart ==
    <<0, 1, 2, 4, 6, 6 + 4 * FixedMipCount, 6 + 8 * FixedMipCount>>

\* The header of which the first k fields hold what the bytes from position
\* p on say, field by field in the order and with the widths of the format,
\* and the others what they held before.
DecodedFirst(k, d, p, before) ==
    [version |-> before.version,
     compression |-> IF k >= 1 THEN U8At(d, p) ELSE before.compression,
     hasMips |-> IF k >= 2 THEN U8At(d, p + 1) # 0 ELSE before.hasMips,
     width |-> IF k >= 3 THEN U16At(d, p + 2) ELSE before.width,
     height |-> IF k >= 4 THEN U16At(d, p + 4) ELSE before.height,
     mipmapOffsets |->
        IF k >= 5 THEN [i \in 1..FixedMipCount |-> U32At(d, p + 6 + 4 * (i - 1))]
        ELSE before.mipmapOffsets,
     mipmapLengths |->
        IF k >= 6
        THEN [i \in 1..FixedMipCount |->
                U32At(d, p + 6 + 4 * FixedMipCount + 4 * (i - 1))]
        ELSE before.mipmapLengths]

\* C14: loadHeader decodes compression (1 byte), hasMips (1 byte), width and
\* height (2 bytes each), the offsets and then the lengths (FixedMipCount
\* times 4 bytes each) in this order from the cursor it starts at: while the
\* chain succeeds, the cursor stands at the start of the next field and the
\* fields decoded so far hold the little-endian value of their own bytes;
\* on success the cursor has advanced by 6 + 8 * FixedMipCount.
C14_FieldOrderAndWidths ==
    (mode = "info" /\ op > 0 /\ rd.ok) =>
        /\ rd.pos = PreHeaderSize + FieldStart[op]
        /\ lheader = DecodedFirst(op - 1, rd.data, PreHeaderSize,
                                  NewHeader(preHeader.version))
        /\ pc \in {"describe", "exit"} =>
              rd.pos = PreHeaderSize + 6 + 8 * FixedMipCount

\* loadHeader succeeded on a file of which no header field is zero.
C14_Witness ==
    /\ mode = "info" /\ pc = "describe" /\ rd.ok
    /\ rd.pos = PreHeaderSize + 6 + 8 * FixedMipCount
    /\ lheader.compression = 3 /\ lheader.hasMips /\ lheader.height = 65535
    /\ lheader.mipmapOffsets[FixedMipCount] = 16909060 + FixedMipCount
    /\ lheader.mipmapLengths[1] = 70001

\* The sizes of the types the chains of the tool read and skip.
FieldSizes == {1, 2, 4}

\* The reader over a source of the same size that holds zeros: where a read
\* leaves cursor and flag does not depend on the values of the bytes, and
\* the value read is discarded.
Blank(r) == [r EXCEPT !.data = [i \in 1..Len(r.data) |-> 0]]

C17_UnusedSlotsZero ==
    Saved =>
        /\ \A i \in 1..(FixedMipCount - 1) :
              StoredU32(OffsetSlot(i)) = 0 /\ StoredU32(LengthSlot(i)) = 0
        /\ LengthSlot(FixedMipCount - 1) + 4 = StoredU32(OffsetSlot(0))
        /\ Len(m_dest.data) = LengthSlot(FixedMipCount - 1) + 4 + Len(image.pixels)

\* A saved file with pixels, slot 0 filled in and the slot after it zero.
C17_Witness ==
    /\ Saved /\ FixedMipCount > 1 /\ Len(image.pixels) = 6
    /\ StoredU32(OffsetSlot(0)) = HeaderSize /\ StoredU32(LengthSlot(0)) = 6
    /\ StoredU32(OffsetSlot(1)) = 0 /\ StoredU32(LengthSlot(1)) = 0

(***************************************************************************)
(* Claims about BmpImageParser::Parse, under Spec.                         *)
(***************************************************************************)

\* Parse went past its tests on the header and did the seek to the pixels.
SeekReached == mode = "convert" /\ op > Len(Parse_ops) /\ pc # "parse"

\* Parse returned true: main() went on to the target file.
ParseReturnedTrue == mode = "convert" /\ pc \notin {"parse", "exit"}

\* The offset of the pixel data as the file header of the bitmap gives it,
\* the 32-bit field at byte 10.
FileOffBits == U32At(rd.data, 10)

\* C18: whenever Parse reaches the seek to the pixel data, the offset it
\* seeks to, the word-swapped value, is at least 54; of a bitmap whose
\* offset field is below 54, Parse returns false.
C18_SeekNotBelowHeader ==
    /\ SeekReached => Parse_swapWords(parse.pixelOffset) >= 54
    /\ (mode = "convert" /\ Len(rd.data) >= 14 /\ FileOffBits < 54) =>
          ~ParseReturnedTrue

\* C19: whenever Parse returns true, width and height are above zero and
\* pixels holds width * height * 3 bytes.
C19_PixelsCoverImage ==
    ParseReturnedTrue =>
        /\ image.width > 0 /\ image.height > 0
        /\ Len(image.pixels) = image.width * image.height * 3

(***************************************************************************)
(* Claims about the runs of the tool as a whole, under Spec.               *)
(***************************************************************************)

\* A conversion run has ended after it opened the target: the stream's
\* contents are the file it leaves at the target path (main() removes or
\* renames nothing).
TargetLeft == mode = "convert" /\ pc = "exit" /\ canOpen

\* C11: the file a conversion run leaves at the target path is never one
\* whose slots are placeholders or do not match the payload present, and
\* never a truncated one: a file that is left is the whole container.
C11_NoBrokenOutputLeft == TargetLeft => m_dest.data = ReferenceFile(image)

\* Every step of the requested operation succeeded.
AllStepsSucceeded ==
    IF mode = "info"
    THEN FileIsV1_0 /\ rd.ok /\ op > Len(loadHeader_ops)
    ELSE image # NoImage /\ canOpen /\ ~m_dest.bad

\* C12: a run of the tool ends with status 0 only when every step of the
\* operation succeeded, and with another status when a step failed.
C12_ExitStatusTellsFailure ==
    pc = "exit" => (exitCode = 0 <=> AllStepsSucceeded)


(***************************************************************************)
(* Claims about the registry of console commands, under SpecConsole.       *)
(***************************************************************************)
\* Two names are the same name when they differ in case only.
SameName(a, b) == StrCaseIComp_fold(a) = StrCaseIComp_fold(b)

\* The calls made so far that unregistered the name, by their place.
Unregistrations(name) ==
    {i \in 1..Len(consoleCalls) :
        consoleCalls[i].op = "unregister" /\ SameName(consoleCalls[i].command, name)}

\* The place of the last call that unregistered the name, 0 when none did.
LastUnregistered(name) ==
    IF Unregistrations(name) = {} THEN 0
    ELSE CHOOSE i \in Unregistrations(name) : \A j \in Unregistrations(name) : j <= i

\* The registrations of the name made since it was last unregistered.
RegistrationsSince(name) ==
    {i \in 1..Len(consoleCalls) :
        /\ i > LastUnregistered(name)
        /\ consoleCalls[i].op = "register"
        /\ SameName(consoleCalls[i].command, name)}

\* What the name must map to: nothing, or the entry of the earliest of them.
EarliestEntry(name) ==
    IF RegistrationsSince(name) = {} THEN {}
    ELSE LET first == CHOOSE i \in RegistrationsSince(name) :
                          \A j \in RegistrationsSince(name) : i <= j
         IN  {[key |-> consoleCalls[first].command, cmd |-> consoleCalls[first].cmd]}

\* The last call on the registry, taken from the state after it.
LastConsoleCall == consoleCalls'[Len(consoleCalls')]

\* A step that registers a name already there, or unregisters one that is
\* not, leaves the registry as it was.
RegistryKept ==
    /\ (/\ LastConsoleCall.op = "register"
        /\ map_find(s_consoleCommands, LastConsoleCall.command) # {})
           => s_consoleCommands' = s_consoleCommands
    /\ (/\ LastConsoleCall.op = "unregister"
        /\ map_find(s_consoleCommands, LastConsoleCall.command) = {})
           => s_consoleCommands' = s_consoleCommands

\* C20: RegisterCommand of a name already registered, in any spelling, keeps
\* the existing handler, category and help text; after any sequence of
\* RegisterCommand and UnregisterCommand calls every name maps to the entry
\* of the earliest registration made since the name was last unregistered;
\* and UnregisterCommand of an unknown name changes nothing.
C20_EarliestRegistrationWins ==
    /\ [](\A name \in ConsoleNames :
             map_find(s_consoleCommands, name) = EarliestEntry(name))
    /\ [][RegistryKept]_consoleVars

\* The name was registered as "ver", then again as "VER" with another
\* command, and still maps to the first one.
C20_Witness ==
    /\ Len(consoleCalls) >= 2
    /\ \E i \in 1..(Len(consoleCalls) - 1) :
          /\ consoleCalls[i].op = "register"
          /\ consoleCalls[i].command = "ver"
          /\ i > LastUnregistered("ver")
          /\ consoleCalls[Len(consoleCalls)].op = "register"
          /\ consoleCalls[Len(consoleCalls)].command = "VER"
          /\ consoleCalls[Len(consoleCalls)].cmd # consoleCalls[i].cmd
          /\ map_find(s_consoleCommands, "VER") =
                {[key |-> "ver", cmd |-> consoleCalls[i].cmd]}


(***************************************************************************)
(* Claims about Console::ExecuteCommand, under SpecExecute.                *)
(***************************************************************************)
\* How many pieces of the line come before its first space.
WordLength(line) ==
    CHOOSE k \in 0..Len(line) :
        /\ \A i \in 1..k : line[i] # " "
        /\ k = Len(line) \/ line[k + 1] = " "

\* The text before the first space and the text after it.
CommandText(line) == Join(SubSeq(line, 1, WordLength(line)))
ArgumentText(line) == Join(SubSeq(line, WordLength(line) + 2, Len(line)))

\* The registered commands the text names, in any spelling.
Registered(text) ==
    {e \in s_consoleCommands : SameName(e.key, text)}

\* The call must invoke a handler: a word, registered, with a handler.
MustInvoke(line) ==
    /\ CommandText(line) # ""
    /\ \E e \in Registered(CommandText(line)) : e.cmd.handler # 0

ExecutedAsClaimed ==
    executed.done =>
        /\ Len(executed.invoked) <= 1
        /\ Len(executed.invoked) = 1 <=> MustInvoke(executed.line)
        /\ Len(executed.invoked) = 1 =>
              /\ executed.invoked[1].command = CommandText(executed.line)
              /\ executed.invoked[1].arguments = ArgumentText(executed.line)
              /\ \E e \in Registered(CommandText(executed.line)) :
                    e.cmd.handler = executed.invoked[1].handler
        /\ CommandText(executed.line) = "" => executed.errors = <<>>
        /\ (/\ CommandText(executed.line) # ""
            /\ Registered(CommandText(executed.line)) = {})
              => executed.errors = <<CommandText(executed.line)>>

\* A call that invokes no handler leaves the registry as it was.
RegistryKeptByExecute ==
    executed'.invoked = <<>> => s_consoleCommands' = s_consoleCommands

\* C21: ExecuteCommand invokes at most one handler per call, and invokes it
\* exactly when the text before the first space is not empty and names a
\* registered command with a handler; the handler gets that text as the
\* command and all that follows the first space as the arguments; an empty
\* command logs nothing, an unknown one logs one error, and neither changes
\* the registry.
C21_ExecuteInvokesRegisteredHandler ==
    /\ []ExecutedAsClaimed
    /\ [][RegistryKeptByExecute]_execVars

\* "VER x x"-like line on a registry holding "ver": the handler of "ver" is
\* invoked with the typed spelling and the arguments with their own space.
C21_Witness ==
    /\ executed.done
    /\ Len(executed.line) = 3
    /\ executed.line[1] = "VER" /\ executed.line[2] = " " /\ executed.line[3] = " "
    /\ Len(executed.invoked) = 1
    /\ executed.invoked[1].command = "VER"
    /\ executed.invoked[1].arguments = " "
    /\ \E e \in s_consoleCommands : e.key = "ver" /\ e.cmd.handler = executed.invoked[1].handler


(***************************************************************************)
(* Claims about Console::KeyDown, under SpecKeys.                          *)
(***************************************************************************)
\* The keys that toggle the console: 0xC0 and 0xDC.
ToggleKeys == {192, 220}

\* How many of the keys pressed so far were toggle keys.
TogglesPressed ==
    Cardinality({i \in 1..Len(keyCalls) : keyCalls[i].key \in ToggleKeys})

\* The last key given to KeyDown, taken from the state after the call.
LastKeyCall == keyCalls'[Len(keyCalls')]

KeyDownAsClaimed ==
    /\ LastKeyCall.key \in ToggleKeys =>
          /\ s_consoleVisible' = ~s_consoleVisible
          /\ LastKeyCall.result = FALSE
    /\ LastKeyCall.key \notin ToggleKeys =>
          /\ LastKeyCall.result = TRUE
          /\ s_consoleVisible' = s_consoleVisible
          /\ s_consoleWindowHeight' = s_consoleWindowHeight

\* C22: KeyDown flips the visibility and returns false exactly for the keys
\* 0xC0 and 0xDC, and for any other key returns true and leaves visibility
\* and height alone; a visible console always has a height above 0; an even
\* number of toggle keys brings the visibility it started with back.
C22_ToggleKeysFlipVisibility ==
    /\ [](s_consoleVisible => s_consoleWindowHeight > 0)
    /\ [](s_consoleVisible <=> TogglesPressed % 2 = 1)
    /\ [][KeyDownAsClaimed]_keyVars

\* Both toggle keys were pressed, other keys between them, and the console
\* is hidden again as it was at the start.
C22_Witness ==
    /\ Len(keyCalls) = 4
    /\ keyCalls[1].key = 192 /\ keyCalls[1].result = FALSE
    /\ keyCalls[2].key = 191 /\ keyCalls[2].result = TRUE
    /\ keyCalls[3].key = 13
    /\ keyCalls[4].key = 220 /\ keyCalls[4].result = FALSE
    /\ ~s_consoleVisible
    /\ s_consoleWindowHeight > 0


(***************************************************************************)
(* Claims about the log callback, under SpecLog.                           *)
(***************************************************************************)
\* No thread is inside the callback.
NoCallbackRunning == \A t \in LogThreads : logPc[t].at = "idle"

\* The log holds the last events, the newest first, and no more than 50.
LogHoldsNewest ==
    NoCallbackRunning =>
        /\ Len(s_consoleLog) <= 50
        /\ Len(s_consoleLog) = Min(logged, 50)
        /\ \A i \in 1..Len(s_consoleLog) : s_consoleLog[i] = logged - i + 1

\* Where each callback stands; one that has pushed has not trimmed yet.
CallbackSteps ==
    /\ \A t \in LogThreads :
          (logPc[t].at = "locked" /\ logPc'[t].at = "pushed") =>
              /\ Len(s_consoleLog') = Len(s_consoleLog) + 1
              /\ s_consoleLog'[1] = logPc[t].message
              /\ Tail(s_consoleLog') = s_consoleLog
    /\ \A t \in LogThreads :
          (logPc[t].at = "pushed" /\ logPc'[t].at = "trimmed") =>
              \/ s_consoleLog' = s_consoleLog
              \/ /\ Len(s_consoleLog') = Len(s_consoleLog) - 1
                 /\ \A i \in 1..Len(s_consoleLog') : s_consoleLog'[i] = s_consoleLog[i]
                 /\ \A i \in 1..Len(s_consoleLog') :
                       s_consoleLog[Len(s_consoleLog)] < s_consoleLog'[i]
    /\ (\A t \in LogThreads :
           ~(logPc[t].at = "locked" /\ logPc'[t].at = "pushed")
           /\ ~(logPc[t].at = "pushed" /\ logPc'[t].at = "trimmed"))
          => s_consoleLog' = s_consoleLog

\* C23: after any sequence of log events the console log holds at most 50
\* entries, they are the most recent ones, the newest first, and a callback
\* adds exactly one entry and evicts at most one, the oldest.
C23_LogKeepsNewestFifty ==
    /\ []LogHoldsNewest
    /\ [][CallbackSteps]_logVars

\* 52 events were delivered: the log holds the events 52 down to 3.
C23_Witness ==
    /\ NoCallbackRunning
    /\ logged = 52
    /\ Len(s_consoleLog) = 50
    /\ s_consoleLog[1] = 52
    /\ s_consoleLog[50] = 3


(***************************************************************************)
(* Claims about Paint, Destroy and the log callback, under SpecPaint.      *)
(***************************************************************************)
\* A callback holds the mutex and its next statement changes the list:
\* push_front, or pop_back on a list above the limit.
CallbackMutating ==
    \E t \in LogThreads :
        \/ logPc[t].at = "locked"
        \/ logPc[t].at = "pushed" /\ Len(s_consoleLog) > LogCapacity

\* The next statement of the main thread reads the list in Paint's loop.
PaintReading == paintPc = "lines"

\* The next statement of the main thread is Destroy's clear().
DestroyClearing == paintPc = "disconnected"

\* C24: with log events coming from other threads, Paint never reads the
\* log list and Destroy never clears it while the log callback is changing
\* it: every access to s_consoleLog is made under s_consoleLogMutex.
C24_NoAccessWhileCallbackMutates ==
    ~((PaintReading \/ DestroyClearing) /\ CallbackMutating)

\* The messages in the text geometry.
Painted == {s_consoleTextGeom[i] : i \in 1..Len(s_consoleTextGeom)}

\* The log holds a message that the text geometry does not.
UnpaintedEntry ==
    \E i \in 1..Len(s_consoleLog) : s_consoleLog[i] \notin Painted

\* C25: whenever the log holds an entry that is not in the text geometry
\* built last, s_consoleTextDirty is true, so that the next Paint of a
\* visible console draws it, however the callback and Paint interleave.
C25_UnpaintedEntryKeepsDirty ==
    (/\ NoCallbackRunning
     /\ paintPc \in {"idle", "lines", "clean"}
     /\ UnpaintedEntry)
        => s_consoleTextDirty

=============================================================================
